---- MODULE Spec2Model ----
(***************************************************************************)
(* Face Privacy Protection: the command line application                   *)
(* (src/src/face_privacy.py) and its face detector (src/src/detectors.py). *)
(*                                                                         *)
(* Floating point coordinates reported by the YOLO model are represented   *)
(* as <<"num", n>>, the value n/2, or <<"nan", 0>>, a value int() cannot   *)
(* convert.                                                                *)
(***************************************************************************)
EXTENDS Integers, Sequences, FiniteSets, TLC

VARIABLES
    pc,            \* position of the running script
    entry,         \* "main": started through main(); "direct": FacePrivacyApp(args).run()
    args,          \* the argparse namespace
    exit_status,   \* "none", "returned", "exit1", "exit2" or "raised"
    model,         \* YOLOFaceDetector.model: "None" or "YOLO"
    env,           \* what _load_model meets: import outcome, file_exists, load_ok
    load,          \* outcome of the constructor: [raised, model, msg], msg "unset" before
    info,          \* get_model_info(): whether it was called, and its last 'loaded' 
    det_in,        \* last input of detect: frame shape and the model's output
    det_out,       \* last outcome of detect: [raised, value]
    calls,         \* processing methods run() has invoked, in order
    inp,           \* the input medium: "unknown" until consulted, then "missing" (no such
                   \* path), "unusable" (cannot be opened or decoded) or "ok"
    errors,        \* error messages printed
    cap,           \* cv2.VideoCapture: "none", "failed", "opened", "released"
    out,           \* cv2.VideoWriter: "none", "open", "released"
    fs,            \* output side effects: directory created, output file created
    total_frames,  \* CAP_PROP_FRAME_COUNT as reported by the capture
    frame_num,     \* frames read so far
    detections,    \* detections of the current frame
    applied,       \* effect applications made to the current frame
    written,       \* what the last written frame carried, and how many were written
    current_effect, intensity, split_view, show_help,   \* webcam settings
    key,           \* last value of cv2.waitKey(1) & 0xFF
    last_effect_key, \* history: the latest of the keys 1-4 seen, 0 if none
    imshow_calls,  \* number of cv2.imshow calls
    windows,       \* "none", "shown", "destroyed"
    fx,            \* last call of an effect, utility or conversion function: what it
                   \* was given and what it did
    px             \* old_files/webcam_face_pixelation.py: the loop's locals

vars == << pc, entry, args, exit_status, model, env, load, info, det_in, det_out, calls, inp,
           errors, cap, out, fs, total_frames, frame_num, detections, applied,
           written, current_effect, intensity, split_view, show_help, key,
           last_effect_key, imshow_calls, windows, fx, px >>

toolvars == << fx, px >>

appvars == << entry, args, exit_status, calls, inp, errors, cap, out, fs, total_frames,
              frame_num, detections, applied, written, current_effect, intensity,
              split_view, show_help, key, last_effect_key, imshow_calls, windows >>

----------------------------------------------------------------------------
(* Bounds of the model *)

MaxFrames == 31        \* frames a capture delivers before the model forces end of input
MaxWebcamFrames == 3   \* iterations of the webcam loop
MaxCoord == 5          \* largest coordinate magnitude (whole units) the model reports

----------------------------------------------------------------------------
(* Helpers *)

Max(a, b) == IF a >= b THEN a ELSE b
Min(a, b) == IF a <= b THEN a ELSE b

Num(n) == << "num", n >>
NaN == << "nan", 0 >>

----------------------------------------------------------------------------
(* detectors.py: YOLOFaceDetector *)

\* the try body of _load_model: the exception it raises ("none" if none), the
\* model it assigns and the message it prints
LoadModelTry(e) ==
    IF e.import # "ok" THEN [exc |-> e.import, model |-> "None", msg |-> "none"]
    ELSE IF e.file_exists
         THEN IF e.load_ok
              THEN [exc |-> "none", model |-> "YOLO", msg |-> "loaded"]
              ELSE [exc |-> "Exception", model |-> "None", msg |-> "none"]
         ELSE [exc |-> "none", model |-> "None", msg |-> "not_found"]

LoadModelNoCatchAll(e) ==
    LET r == LoadModelTry(e)
    IN  IF r.exc = "none" THEN [raised |-> FALSE, model |-> r.model, msg |-> r.msg]
        ELSE IF r.exc = "ImportError"
             THEN [raised |-> FALSE, model |-> "None", msg |-> "not_installed"]
             ELSE [raised |-> TRUE, model |-> "None", msg |-> "none"]

\* __init__ and _load_model: self.model = None, then the try with its two handlers
LoadModel(e) ==
    LET r == LoadModelTry(e)
    IN  IF r.exc = "none" THEN [raised |-> FALSE, model |-> r.model, msg |-> r.msg]
        ELSE IF r.exc = "ImportError"
             THEN [raised |-> FALSE, model |-> "None", msg |-> "not_installed"]
             ELSE [raised |-> FALSE, model |-> "None", msg |-> "error_loading"]

\* get_model_info()['loaded']
GetModelInfoLoaded(m) == m # "None"

\* int(x) on a float: truncation toward zero; raises on NaN (reported as "exc")
IntOf(x) ==
    IF x[1] = "nan" THEN [exc |-> TRUE, val |-> 0]
    ELSE IF x[2] >= 0 THEN [exc |-> FALSE, val |-> x[2] \div 2]
         ELSE [exc |-> FALSE, val |-> -((-x[2]) \div 2)]

ClampNone(v, hi) == v

\* max(0, min(v, hi))
Clamp(v, hi) == Max(0, Min(v, hi))

\* lines 91-104 for one box: the detection tuple, or exc when a conversion raises
ConvertBox(box, shape) ==
    LET x1 == IntOf(box.x1)
        y1 == IntOf(box.y1)
        x2 == IntOf(box.x2)
        y2 == IntOf(box.y2)
    IN  IF x1.exc \/ y1.exc \/ x2.exc \/ y2.exc
        THEN [exc |-> TRUE, val |-> << >>]
        ELSE [exc |-> FALSE,
              val |-> << Clamp(x1.val, shape.w), Clamp(y1.val, shape.h),
                         Clamp(x2.val, shape.w), Clamp(y2.val, shape.h), box.conf >>]

\* the inner loop over result.boxes, appending to detections
RECURSIVE ConvertBoxes(_, _, _)
ConvertBoxes(boxes, shape, acc) ==
    IF boxes = << >> THEN [exc |-> FALSE, val |-> acc]
    ELSE LET c == ConvertBox(Head(boxes), shape)
         IN  IF c.exc THEN [exc |-> TRUE, val |-> acc]
             ELSE ConvertBoxes(Tail(boxes), shape, Append(acc, c.val))

\* the outer loop over results
RECURSIVE ConvertResults(_, _, _)
ConvertResults(results, shape, acc) ==
    IF results = << >> THEN [exc |-> FALSE, val |-> acc]
    ELSE LET r == ConvertBoxes(Head(results), shape, acc)
         IN  IF r.exc THEN r
             ELSE ConvertResults(Tail(results), shape, r.val)

\* the body of the try block of detect: inference, then conversion
DetectTry(shape, output) ==
    IF output.raises THEN [exc |-> TRUE, val |-> << >>]
    ELSE ConvertResults(output.results, shape, << >>)

DetectNoCatch(m, shape, output) ==
    IF m = "None" THEN [raised |-> FALSE, value |-> << >>]
    ELSE LET r == DetectTry(shape, output)
         IN  [raised |-> r.exc, value |-> r.val]

\* YOLOFaceDetector.detect: what it returns and whether it raises
Detect(m, shape, output) ==
    IF m = "None" THEN [raised |-> FALSE, value |-> << >>]
    ELSE LET r == DetectTry(shape, output)
         IN  IF r.exc THEN [raised |-> FALSE, value |-> << >>]   \* except Exception
             ELSE [raised |-> FALSE, value |-> r.val]

----------------------------------------------------------------------------
(* The detector on its own: construction, detect, get_model_info *)

ImportOutcomes == { "ok", "ImportError", "OSError" }

Envs == [ import : ImportOutcomes, file_exists : BOOLEAN, load_ok : BOOLEAN ]

Shapes == { [w |-> 4, h |-> 3], [w |-> 2, h |-> 5] }

\* coordinates the model may report: far below, just below zero, zero, fractional
\* inside, on the far edge, far beyond, and not a number
Coords == { Num(-(2 * MaxCoord) - 1), Num(-1), Num(0), Num(3), Num(8),
            Num(2 * MaxCoord + 1), NaN }

Boxes == [ x1 : Coords, y1 : Coords, x2 : Coords, y2 : Coords, conf : {90} ]

BoxInside == [x1 |-> Num(1), y1 |-> Num(1), x2 |-> Num(5), y2 |-> Num(5), conf |-> 77]
BoxBeyond == [x1 |-> Num(-3), y1 |-> Num(2), x2 |-> Num(2001), y2 |-> Num(1400), conf |-> 55]
BoxNaN    == [x1 |-> Num(1), y1 |-> NaN, x2 |-> Num(5), y2 |-> Num(5), conf |-> 41]

Outputs ==
    { [raises |-> TRUE, results |-> << >>],
      [raises |-> FALSE, results |-> << >>],
      [raises |-> FALSE, results |-> << << >> >>],
      [raises |-> FALSE, results |-> << << BoxInside, BoxBeyond >> >>],
      [raises |-> FALSE, results |-> << << BoxInside >>, << BoxBeyond >> >>],
      [raises |-> FALSE, results |-> << << BoxInside, BoxNaN, BoxBeyond >> >>] }
    \cup { [raises |-> FALSE, results |-> << << b >> >>] : b \in Boxes }

NoDetIn == [shape |-> [w |-> 0, h |-> 0], output |-> [raises |-> FALSE, results |-> << >>]]
NoDetOut == [raised |-> FALSE, value |-> << >>]
NoLoad == [raised |-> FALSE, model |-> "None", msg |-> "unset"]
NoArgs == [source |-> "webcam", effect |-> "pixelate", intensity |-> 15,
           demo |-> FALSE, no_display |-> FALSE]
NoFs == [dir |-> FALSE, file |-> FALSE, shot |-> FALSE]
NoWritten == [n |-> 0, frame |-> << >>, dets |-> << >>]
NoFx == [op |-> "none"]
NoPx == [level |-> 0, prev_level |-> 0, blur_mode |-> FALSE, key |-> 255, frames |-> 0,
         faces |-> << >>, released |-> FALSE,
         res |-> [raised |-> FALSE, writes |-> { }, grid |-> [w |-> 0, h |-> 0], kernel |-> 0],
         prev_res |-> [raised |-> FALSE, writes |-> { }, grid |-> [w |-> 0, h |-> 0],
                       kernel |-> 0]]

AppIdle ==
    /\ entry = "direct" /\ args = NoArgs /\ exit_status = "none"
    /\ calls = << >> /\ inp = "unknown" /\ errors = << >>
    /\ cap = "none" /\ out = "none" /\ fs = NoFs
    /\ total_frames = 0 /\ frame_num = 0
    /\ detections = << >> /\ applied = << >> /\ written = NoWritten
    /\ current_effect = "unset" /\ intensity = 0
    /\ split_view = FALSE /\ show_help = FALSE
    /\ key = 255 /\ last_effect_key = 0 /\ imshow_calls = 0 /\ windows = "none"
    /\ fx = NoFx /\ px = NoPx

InitDetector ==
    /\ pc = "d_new"
    /\ env \in Envs
    /\ model = "None"
    /\ load = NoLoad
    /\ info = [called |-> FALSE, loaded |-> FALSE]
    /\ det_in = NoDetIn
    /\ det_out = NoDetOut
    /\ AppIdle

\* YOLOFaceDetector(...)
D_Construct ==
    /\ pc = "d_new"
    /\ load' = LoadModel(env)
    /\ model' = load'.model
    /\ pc' = IF load'.raised THEN "d_raised" ELSE "d_ready"
    /\ UNCHANGED << env, info, det_in, det_out >>
    /\ UNCHANGED appvars
    /\ UNCHANGED toolvars

\* detector.detect(frame)
D_Detect ==
    /\ pc = "d_ready"
    /\ \E shape \in Shapes, output \in Outputs :
          /\ det_in' = [shape |-> shape, output |-> output]
          /\ det_out' = Detect(model, shape, output)
    /\ pc' = IF det_out'.raised THEN "d_raised" ELSE "d_detected"
    /\ UNCHANGED << env, load, model, info >>
    /\ UNCHANGED appvars
    /\ UNCHANGED toolvars

\* detector.get_model_info()
D_GetModelInfo ==
    /\ pc \in { "d_ready", "d_detected" }
    /\ info' = [called |-> TRUE, loaded |-> GetModelInfoLoaded(model)]
    /\ UNCHANGED << pc, env, load, model, det_in, det_out >>
    /\ UNCHANGED appvars
    /\ UNCHANGED toolvars

NextDetector == D_Construct \/ D_Detect \/ D_GetModelInfo

SpecDetector == InitDetector /\ [][NextDetector]_vars

----------------------------------------------------------------------------
(* face_privacy.py: main, FacePrivacyApp.run and the setup of the file methods *)

Sources == { "webcam", "video", "image" }                     \* --source choices
EffectChoices == { "pixelate", "blur", "blackbox", "emoji" }  \* --effect choices

RawSources == Sources \cup { "usb" }
RawEffects == EffectChoices \cup { "witness" }
RawIntensities == { 3, 49, 77 }

\* what the command line may carry
MainArgs == [ source : RawSources, effect : RawEffects, intensity : RawIntensities,
              demo : BOOLEAN, no_display : BOOLEAN ]

\* namespaces a caller that builds FacePrivacyApp itself may pass
DirectArgs == [ source : RawSources, effect : { "witness" }, intensity : { 77 },
                demo : BOOLEAN, no_display : { FALSE } ]

\* the detector's surroundings in an application run: model file present or not
AppEnvs == { [import |-> "ok", file_exists |-> TRUE, load_ok |-> TRUE],
             [import |-> "ok", file_exists |-> FALSE, load_ok |-> TRUE] }

\* parse_args: argparse rejects a value outside the choices of --source or --effect
ParseAccepts(a) == a.source \in Sources /\ a.effect \in EffectChoices

ClampIntensityNone(i) == i

\* args.intensity = max(5, min(50, args.intensity))
ClampIntensity(i) == Max(5, Min(50, i))

\* self.effect_map
effect_map ==
    [ n \in EffectChoices |->
        CASE n = "pixelate" -> "apply_pixelation"
          [] n = "blur"     -> "apply_blur"
          [] n = "blackbox" -> "apply_blackbox"
          [] n = "emoji"    -> "apply_emoji" ]

\* self.effect_map.get(name, apply_pixelation)
EffectMapGet(name) ==
    IF name \in DOMAIN effect_map THEN effect_map[name] ELSE "apply_pixelation"

\* effect_func(frame, x1, y1, x2, y2, level): the frame carries one more application
ApplyEffect(frame, func, d, level) ==
    Append(frame, [effect |-> func, box |-> << d[1], d[2], d[3], d[4] >>, level |-> level])

DispatchSourceFirst(a) ==
    IF a.source = "webcam" THEN "process_webcam"
    ELSE IF a.source = "video" THEN "process_video"
    ELSE IF a.source = "image" THEN "process_image"
    ELSE IF a.demo THEN "create_demo_video"
    ELSE "none"

\* the if/elif chain of run: the method it calls, "none" for the else branch
Dispatch(a) ==
    IF a.demo THEN "create_demo_video"
    ELSE IF a.source = "webcam" THEN "process_webcam"
    ELSE IF a.source = "video" THEN "process_video"
    ELSE IF a.source = "image" THEN "process_image"
    ELSE "none"

\* first position of each processing method
StartOf(m) ==
    CASE m = "create_demo_video" -> "dv_setup"
      [] m = "process_webcam"    -> "pw_open"
      [] m = "process_video"     -> "pv_setup"
      [] m = "process_image"     -> "pi_setup"

Init ==
    /\ pc = "start"
    /\ entry \in { "main", "direct" }
    /\ args \in (IF entry = "main" THEN MainArgs ELSE DirectArgs)
    /\ env \in AppEnvs
    /\ model = "None"
    /\ load = NoLoad
    /\ info = [called |-> FALSE, loaded |-> FALSE]
    /\ det_in = NoDetIn
    /\ det_out = NoDetOut
    /\ exit_status = "none"
    /\ calls = << >> /\ inp = "unknown" /\ errors = << >>
    /\ cap = "none" /\ out = "none" /\ fs = NoFs
    /\ total_frames = 0 /\ frame_num = 0
    /\ detections = << >> /\ applied = << >> /\ written = NoWritten
    /\ current_effect = "unset" /\ intensity = 0
    /\ split_view = FALSE /\ show_help = FALSE
    /\ key = 255 /\ last_effect_key = 0 /\ imshow_calls = 0 /\ windows = "none"
    /\ fx = NoFx /\ px = NoPx

detvars == << env, load, model, info, det_in, det_out >>
webcamvars == << current_effect, intensity, split_view, show_help, key,
                 last_effect_key >>
framevars == << total_frames, frame_num, detections, applied, written >>

\* main(): parse_args and the intensity clamp
Main ==
    /\ pc = "start" /\ entry = "main"
    /\ IF ParseAccepts(args)
       THEN /\ args' = [args EXCEPT !.intensity = ClampIntensity(@)]
            /\ pc' = "construct"
            /\ UNCHANGED exit_status
       ELSE /\ exit_status' = "exit2"
            /\ pc' = "done"
            /\ UNCHANGED args
    /\ UNCHANGED << entry, calls, inp, errors, cap, out, fs, imshow_calls, windows >>
    /\ UNCHANGED << detvars, framevars, webcamvars >>
    /\ UNCHANGED toolvars

\* a caller other than main() hands its own namespace to FacePrivacyApp
Direct ==
    /\ pc = "start" /\ entry = "direct"
    /\ pc' = "construct"
    /\ UNCHANGED << entry, args, exit_status, calls, inp, errors, cap, out, fs,
                    imshow_calls, windows >>
    /\ UNCHANGED << detvars, framevars, webcamvars >>
    /\ UNCHANGED toolvars

\* FacePrivacyApp.__init__: builds the detector, clears show_help and split_view
AppConstruct ==
    /\ pc = "construct"
    /\ load' = LoadModel(env)
    /\ model' = load'.model
    /\ show_help' = FALSE
    /\ split_view' = FALSE
    /\ IF load'.raised
       THEN pc' = "done" /\ exit_status' = "raised"
       ELSE pc' = "run" /\ UNCHANGED exit_status
    /\ UNCHANGED << entry, args, calls, inp, errors, cap, out, fs, imshow_calls, windows,
                    env, info, det_in, det_out, current_effect, intensity, key,
                    last_effect_key >>
    /\ UNCHANGED framevars
    /\ UNCHANGED toolvars

\* FacePrivacyApp.run
Run ==
    /\ pc = "run"
    /\ LET m == Dispatch(args)
       IN  IF m = "none"
           THEN /\ errors' = Append(errors, "unknown_source")
                /\ exit_status' = "exit1"            \* sys.exit(1)
                /\ pc' = "done"
                /\ UNCHANGED calls
           ELSE /\ calls' = Append(calls, m)
                /\ pc' = StartOf(m)
                /\ UNCHANGED << errors, exit_status >>
    /\ UNCHANGED << entry, args, inp, cap, out, fs, imshow_calls, windows >>
    /\ UNCHANGED << detvars, framevars, webcamvars >>
    /\ UNCHANGED toolvars

----------------------------------------------------------------------------
(* face_privacy.py: the frame loops of process_video and create_demo_video *)

ProgressEvery == 30
panel_width == 640
panel_height == 480

\* CAP_PROP_FRAME_COUNT as the capture reports it: unknown (0) or a count
ReportedFrameCounts == { 0, 60 }

\* seconds between start_time and the end of the loop, as time.time() measures them
ElapsedTimes == { 0, 1 }

\* frame shapes: of a file or camera frame, and of the demo's resized panel
FileShape == [w |-> 4, h |-> 3]
PanelShape == [w |-> panel_width, h |-> panel_height]

\* what the model reports for a frame of an application run
AppOutputs ==
    { [raises |-> TRUE, results |-> << >>],
      [raises |-> FALSE, results |-> << << >> >>],
      [raises |-> FALSE, results |-> << << BoxInside, BoxBeyond >> >>] }

ApplyLoopDoneEarly(app, dets) == Len(app) >= Len(dets) - 1

\* the for loop over detections has gone through every detection
ApplyLoopDone(app, dets) == Len(app) = Len(dets)

\* progress = (frame_num / total_frames) * 100 raises ZeroDivisionError
ProgressRaises(fn, tf) == fn % ProgressEvery = 0 /\ tf = 0

\* the head of process_video up to the frame loop: the early returns, then the capture
\* properties, os.makedirs and cv2.VideoWriter
PVSetupMkdirFirst(i) ==
    IF i = "missing"
    THEN [err |-> "input_not_found", cap |-> "none", out |-> "none",
          dir |-> TRUE, file |-> FALSE]
    ELSE IF i = "unusable"
    THEN [err |-> "could_not_open", cap |-> "failed", out |-> "none",
          dir |-> TRUE, file |-> FALSE]
    ELSE [err |-> "none", cap |-> "opened", out |-> "open", dir |-> TRUE, file |-> TRUE]

PVSetup(i) ==
    IF i = "missing"                                   \* not os.path.exists(input_path)
    THEN [err |-> "input_not_found", cap |-> "none", out |-> "none",
          dir |-> FALSE, file |-> FALSE]
    ELSE IF i = "unusable"                             \* not cap.isOpened()
    THEN [err |-> "could_not_open", cap |-> "failed", out |-> "none",
          dir |-> FALSE, file |-> FALSE]
    ELSE [err |-> "none", cap |-> "opened", out |-> "open", dir |-> TRUE, file |-> TRUE]

PV_Setup ==
    /\ pc = "pv_setup"
    /\ \E i \in { "missing", "unusable", "ok" }, tf \in ReportedFrameCounts :
         LET r == PVSetup(i)
         IN  /\ inp' = i
             /\ cap' = r.cap
             /\ out' = r.out
             /\ fs' = [fs EXCEPT !.dir = r.dir, !.file = r.file]
             /\ IF r.err # "none"
                THEN /\ errors' = Append(errors, r.err)
                     /\ exit_status' = "returned"
                     /\ pc' = "done"
                     /\ UNCHANGED << total_frames, frame_num >>
                ELSE /\ total_frames' = tf
                     /\ frame_num' = 0
                     /\ pc' = "pv_read"
                     /\ UNCHANGED << errors, exit_status >>
    /\ UNCHANGED << entry, args, calls, imshow_calls, windows, detections, applied,
                    written >>
    /\ UNCHANGED << detvars, webcamvars >>
    /\ UNCHANGED toolvars

\* ret, frame = cap.read(); break on not ret; frame_num += 1
PV_Read ==
    /\ pc = "pv_read"
    /\ \E ret \in BOOLEAN :
         /\ ret => frame_num < MaxFrames
         /\ IF ret
            THEN /\ frame_num' = frame_num + 1
                 /\ applied' = << >>
                 /\ pc' = "pv_detect"
            ELSE /\ pc' = "pv_release"
                 /\ UNCHANGED << frame_num, applied >>
    /\ UNCHANGED << entry, args, exit_status, calls, inp, errors, cap, out, fs,
                    imshow_calls, windows, total_frames, detections, written >>
    /\ UNCHANGED << detvars, webcamvars >>
    /\ UNCHANGED toolvars

\* detections = self.detector.detect(frame)
PV_Detect ==
    /\ pc = "pv_detect"
    /\ \E o \in AppOutputs :
         LET r == Detect(model, FileShape, o)
         IN  IF r.raised
             THEN /\ exit_status' = "raised"
                  /\ pc' = "done"
                  /\ UNCHANGED detections
             ELSE /\ detections' = r.value
                  /\ pc' = "pv_apply"
                  /\ UNCHANGED exit_status
    /\ UNCHANGED << entry, args, calls, inp, errors, cap, out, fs, imshow_calls, windows,
                    total_frames, frame_num, applied, written >>
    /\ UNCHANGED << detvars, webcamvars >>
    /\ UNCHANGED toolvars

\* one iteration of the loop over detections
PV_Apply ==
    /\ pc = "pv_apply"
    /\ ~ApplyLoopDone(applied, detections)
    /\ applied' = ApplyEffect(applied, EffectMapGet(args.effect),
                              detections[Len(applied) + 1], args.intensity)
    /\ UNCHANGED << pc, entry, args, exit_status, calls, inp, errors, cap, out, fs,
                    imshow_calls, windows, total_frames, frame_num, detections, written >>
    /\ UNCHANGED << detvars, webcamvars >>
    /\ UNCHANGED toolvars

\* out.write(...) once the loop over detections has ended
PV_Write ==
    /\ pc = "pv_apply"
    /\ ApplyLoopDone(applied, detections)
    /\ written' = [n |-> written.n + 1, frame |-> applied, dets |-> detections]
    /\ pc' = "pv_progress"
    /\ UNCHANGED << entry, args, exit_status, calls, inp, errors, cap, out, fs,
                    imshow_calls, windows, total_frames, frame_num, detections, applied >>
    /\ UNCHANGED << detvars, webcamvars >>
    /\ UNCHANGED toolvars

\* the progress report every 30 frames divides by total_frames
PV_Progress ==
    /\ pc = "pv_progress"
    /\ IF ProgressRaises(frame_num, total_frames)
       THEN exit_status' = "raised" /\ pc' = "done"          \* ZeroDivisionError
       ELSE pc' = "pv_read" /\ UNCHANGED exit_status
    /\ UNCHANGED << entry, args, calls, inp, errors, cap, out, fs, imshow_calls, windows >>
    /\ UNCHANGED << detvars, framevars, webcamvars >>
    /\ UNCHANGED toolvars

\* after the loop: cap.release(), out.release(), then the summary, which divides
\* by the elapsed time
PV_Release ==
    /\ pc = "pv_release"
    /\ cap' = "released"
    /\ out' = "released"
    /\ \E elapsed \in ElapsedTimes :
         exit_status' = IF elapsed = 0 THEN "raised" ELSE "returned"
    /\ pc' = "done"
    /\ UNCHANGED << entry, args, calls, inp, errors, fs, imshow_calls, windows >>
    /\ UNCHANGED << detvars, framevars, webcamvars >>
    /\ UNCHANGED toolvars

\* the head of create_demo_video up to the frame loop: the early returns, then the capture
\* properties, os.makedirs and cv2.VideoWriter
DVSetup(i) ==
    IF i = "missing"                                   \* not os.path.exists(input_path)
    THEN [err |-> "input_not_found", cap |-> "none", out |-> "none",
          dir |-> FALSE, file |-> FALSE]
    ELSE IF i = "unusable"                             \* not cap.isOpened()
    THEN [err |-> "could_not_open", cap |-> "failed", out |-> "none",
          dir |-> FALSE, file |-> FALSE]
    ELSE [err |-> "none", cap |-> "opened", out |-> "open", dir |-> TRUE, file |-> TRUE]

DV_Setup ==
    /\ pc = "dv_setup"
    /\ \E i \in { "missing", "unusable", "ok" }, tf \in ReportedFrameCounts :
         LET r == DVSetup(i)
         IN  /\ inp' = i
             /\ cap' = r.cap
             /\ out' = r.out
             /\ fs' = [fs EXCEPT !.dir = r.dir, !.file = r.file]
             /\ IF r.err # "none"
                THEN /\ errors' = Append(errors, r.err)
                     /\ exit_status' = "returned"
                     /\ pc' = "done"
                     /\ UNCHANGED << total_frames, frame_num >>
                ELSE /\ total_frames' = tf
                     /\ frame_num' = 0
                     /\ pc' = "dv_read"
                     /\ UNCHANGED << errors, exit_status >>
    /\ UNCHANGED << entry, args, calls, imshow_calls, windows, detections, applied,
                    written >>
    /\ UNCHANGED << detvars, webcamvars >>
    /\ UNCHANGED toolvars

\* ret, frame = cap.read(); break on not ret; frame_num += 1
DV_Read ==
    /\ pc = "dv_read"
    /\ \E ret \in BOOLEAN :
         /\ ret => frame_num < MaxFrames
         /\ IF ret
            THEN /\ frame_num' = frame_num + 1
                 /\ applied' = << >>
                 /\ pc' = "dv_detect"
            ELSE /\ pc' = "dv_release"
                 /\ UNCHANGED << frame_num, applied >>
    /\ UNCHANGED << entry, args, exit_status, calls, inp, errors, cap, out, fs,
                    imshow_calls, windows, total_frames, detections, written >>
    /\ UNCHANGED << detvars, webcamvars >>
    /\ UNCHANGED toolvars

\* detections = self.detector.detect(frame)
DV_Detect ==
    /\ pc = "dv_detect"
    /\ \E o \in AppOutputs :
         LET r == Detect(model, PanelShape, o)
         IN  IF r.raised
             THEN /\ exit_status' = "raised"
                  /\ pc' = "done"
                  /\ UNCHANGED detections
             ELSE /\ detections' = r.value
                  /\ pc' = "dv_apply"
                  /\ UNCHANGED exit_status
    /\ UNCHANGED << entry, args, calls, inp, errors, cap, out, fs, imshow_calls, windows,
                    total_frames, frame_num, applied, written >>
    /\ UNCHANGED << detvars, webcamvars >>
    /\ UNCHANGED toolvars

\* one iteration of the loop over detections
DV_Apply ==
    /\ pc = "dv_apply"
    /\ ~ApplyLoopDone(applied, detections)
    /\ applied' = ApplyEffect(applied, EffectMapGet(args.effect),
                              detections[Len(applied) + 1], args.intensity)
    /\ UNCHANGED << pc, entry, args, exit_status, calls, inp, errors, cap, out, fs,
                    imshow_calls, windows, total_frames, frame_num, detections, written >>
    /\ UNCHANGED << detvars, webcamvars >>
    /\ UNCHANGED toolvars

\* out.write(...) once the loop over detections has ended
DV_Write ==
    /\ pc = "dv_apply"
    /\ ApplyLoopDone(applied, detections)
    /\ written' = [n |-> written.n + 1, frame |-> applied, dets |-> detections]
    /\ pc' = "dv_progress"
    /\ UNCHANGED << entry, args, exit_status, calls, inp, errors, cap, out, fs,
                    imshow_calls, windows, total_frames, frame_num, detections, applied >>
    /\ UNCHANGED << detvars, webcamvars >>
    /\ UNCHANGED toolvars

\* the progress report every 30 frames divides by total_frames
DV_Progress ==
    /\ pc = "dv_progress"
    /\ IF ProgressRaises(frame_num, total_frames)
       THEN exit_status' = "raised" /\ pc' = "done"          \* ZeroDivisionError
       ELSE pc' = "dv_read" /\ UNCHANGED exit_status
    /\ UNCHANGED << entry, args, calls, inp, errors, cap, out, fs, imshow_calls, windows >>
    /\ UNCHANGED << detvars, framevars, webcamvars >>
    /\ UNCHANGED toolvars

\* after the loop: cap.release(), out.release(), then the summary, which divides
\* by the elapsed time
DV_Release ==
    /\ pc = "dv_release"
    /\ cap' = "released"
    /\ out' = "released"
    /\ \E elapsed \in ElapsedTimes :
         exit_status' = IF elapsed = 0 THEN "raised" ELSE "returned"
    /\ pc' = "done"
    /\ UNCHANGED << entry, args, calls, inp, errors, fs, imshow_calls, windows >>
    /\ UNCHANGED << detvars, framevars, webcamvars >>
    /\ UNCHANGED toolvars

----------------------------------------------------------------------------
(* face_privacy.py: process_image *)

\* the head of process_image: the two early returns
PISetup(i) ==
    IF i = "missing" THEN "input_not_found"            \* not os.path.exists(input_path)
    ELSE IF i = "unusable" THEN "could_not_read"       \* cv2.imread returned None
    ELSE "none"

PI_Setup ==
    /\ pc = "pi_setup"
    /\ \E i \in { "missing", "unusable", "ok" } :
         LET err == PISetup(i)
         IN  /\ inp' = i
             /\ IF err # "none"
                THEN /\ errors' = Append(errors, err)
                     /\ exit_status' = "returned"
                     /\ pc' = "done"
                ELSE /\ pc' = "pi_detect"
                     /\ UNCHANGED << errors, exit_status >>
    /\ UNCHANGED << entry, args, calls, cap, out, fs, imshow_calls, windows >>
    /\ UNCHANGED << detvars, framevars, webcamvars >>
    /\ UNCHANGED toolvars

\* detections = self.detector.detect(image)
PI_Detect ==
    /\ pc = "pi_detect"
    /\ \E o \in AppOutputs :
         LET r == Detect(model, FileShape, o)
         IN  IF r.raised
             THEN /\ exit_status' = "raised"
                  /\ pc' = "done"
                  /\ UNCHANGED detections
             ELSE /\ detections' = r.value
                  /\ pc' = "pi_apply"
                  /\ UNCHANGED exit_status
    /\ UNCHANGED << entry, args, calls, inp, errors, cap, out, fs, imshow_calls, windows,
                    total_frames, frame_num, applied, written >>
    /\ UNCHANGED << detvars, webcamvars >>
    /\ UNCHANGED toolvars

\* one iteration of the loop over detections
PI_Apply ==
    /\ pc = "pi_apply"
    /\ ~ApplyLoopDone(applied, detections)
    /\ applied' = ApplyEffect(applied, EffectMapGet(args.effect),
                              detections[Len(applied) + 1], args.intensity)
    /\ UNCHANGED << pc, entry, args, exit_status, calls, inp, errors, cap, out, fs,
                    imshow_calls, windows, total_frames, frame_num, detections, written >>
    /\ UNCHANGED << detvars, webcamvars >>
    /\ UNCHANGED toolvars

\* os.makedirs, cv2.imwrite, then the window unless --no-display
PI_Save ==
    /\ pc = "pi_apply"
    /\ ApplyLoopDone(applied, detections)
    /\ fs' = [fs EXCEPT !.dir = TRUE, !.file = TRUE]
    /\ written' = [n |-> written.n + 1, frame |-> applied, dets |-> detections]
    /\ IF ~args.no_display
       THEN /\ imshow_calls' = imshow_calls + 1          \* imshow, waitKey(0),
            /\ windows' = "destroyed"                    \* destroyAllWindows
       ELSE UNCHANGED << imshow_calls, windows >>
    /\ exit_status' = "returned"
    /\ pc' = "done"
    /\ UNCHANGED << entry, args, calls, inp, errors, cap, out, total_frames, frame_num,
                    detections, applied >>
    /\ UNCHANGED << detvars, webcamvars >>
    /\ UNCHANGED toolvars

----------------------------------------------------------------------------
(* face_privacy.py: process_webcam *)

\* values cv2.waitKey(1) may return: -1 (no key), q s SPACE + = - _ 1 2 3 4 h,
\* the unbound x, and the key 2 reported with a modifier bit above the low byte
RawKeys == { -1, 113, 115, 32, 43, 61, 45, 95, 49, 50, 51, 52, 104, 120, 1048626 }

\* cv2.waitKey(1) & 0xFF
MaskKey(raw) == raw % 256

HandleKeyWrong(k, s) ==
    IF k = 32 THEN [s EXCEPT !.split = ~@, !.help = ~@]
    ELSE IF k \in { 43, 61 } THEN [s EXCEPT !.intensity = Min(@ + 2, 50)]
    ELSE IF k \in { 45, 95 } THEN [s EXCEPT !.intensity = Max(@ - 2, 5)]
    ELSE IF k = 49 THEN [s EXCEPT !.effect = "pixelate"]
    ELSE IF k = 50 THEN [s EXCEPT !.effect = "blur"]
    ELSE IF k = 51 THEN [s EXCEPT !.effect = "blackbox"]
    ELSE IF k = 52 THEN [s EXCEPT !.effect = "emoji"]
    ELSE IF k = 104 THEN [s EXCEPT !.help = ~@]
    ELSE s

\* the if/elif chain on key: the settings after it (q and s change none)
HandleKey(k, s) ==
    IF k = 113 THEN s                                             \* q: break
    ELSE IF k = 115 THEN s                                        \* s: screenshot
    ELSE IF k = 32 THEN [s EXCEPT !.split = ~@]                   \* SPACE
    ELSE IF k \in { 43, 61 } THEN [s EXCEPT !.intensity = Min(@ + 2, 50)]   \* + =
    ELSE IF k \in { 45, 95 } THEN [s EXCEPT !.intensity = Max(@ - 2, 5)]    \* - _
    ELSE IF k = 49 THEN [s EXCEPT !.effect = "pixelate"]
    ELSE IF k = 50 THEN [s EXCEPT !.effect = "blur"]
    ELSE IF k = 51 THEN [s EXCEPT !.effect = "blackbox"]
    ELSE IF k = 52 THEN [s EXCEPT !.effect = "emoji"]
    ELSE IF k = 104 THEN [s EXCEPT !.help = ~@]                   \* h
    ELSE s

\* cv2.VideoCapture(0), the early return, the two locals
PW_Open ==
    /\ pc = "pw_open"
    /\ \E opens \in BOOLEAN :
         IF opens
         THEN /\ cap' = "opened"
              /\ current_effect' = args.effect
              /\ intensity' = args.intensity
              /\ pc' = "pw_read"
              /\ UNCHANGED << errors, exit_status >>
         ELSE /\ cap' = "failed"
              /\ errors' = Append(errors, "no_webcam")
              /\ exit_status' = "returned"
              /\ pc' = "done"
              /\ UNCHANGED << current_effect, intensity >>
    /\ UNCHANGED << entry, args, calls, inp, out, fs, imshow_calls, windows,
                    split_view, show_help, key, last_effect_key >>
    /\ UNCHANGED << detvars, framevars >>
    /\ UNCHANGED toolvars

\* ret, frame = cap.read(); a failed read prints and breaks
PW_Read ==
    /\ pc = "pw_read"
    /\ \E ret \in BOOLEAN :
         /\ ret => frame_num < MaxWebcamFrames
         /\ IF ret
            THEN /\ frame_num' = frame_num + 1
                 /\ applied' = << >>
                 /\ pc' = "pw_detect"
                 /\ UNCHANGED errors
            ELSE /\ errors' = Append(errors, "grab_failed")
                 /\ pc' = "pw_release"
                 /\ UNCHANGED << frame_num, applied >>
    /\ UNCHANGED << entry, args, exit_status, calls, inp, cap, out, fs, imshow_calls,
                    windows, total_frames, detections, written >>
    /\ UNCHANGED << detvars, webcamvars >>
    /\ UNCHANGED toolvars

\* detections = self.detector.detect(frame)
PW_Detect ==
    /\ pc = "pw_detect"
    /\ \E o \in AppOutputs :
         LET r == Detect(model, FileShape, o)
         IN  IF r.raised
             THEN /\ exit_status' = "raised"
                  /\ pc' = "done"
                  /\ UNCHANGED detections
             ELSE /\ detections' = r.value
                  /\ pc' = "pw_apply"
                  /\ UNCHANGED exit_status
    /\ UNCHANGED << entry, args, calls, inp, errors, cap, out, fs, imshow_calls, windows,
                    total_frames, frame_num, applied, written >>
    /\ UNCHANGED << detvars, webcamvars >>
    /\ UNCHANGED toolvars

\* one iteration of the loop over detections, with the current effect and intensity
PW_Apply ==
    /\ pc = "pw_apply"
    /\ ~ApplyLoopDone(applied, detections)
    /\ applied' = ApplyEffect(applied, EffectMapGet(current_effect),
                              detections[Len(applied) + 1], intensity)
    /\ UNCHANGED << pc, entry, args, exit_status, calls, inp, errors, cap, out, fs,
                    imshow_calls, windows, total_frames, frame_num, detections, written >>
    /\ UNCHANGED << detvars, webcamvars >>
    /\ UNCHANGED toolvars

\* the overlays, cv2.imshow (split view or single), then key = waitKey(1) & 0xFF
PW_Show ==
    /\ pc = "pw_apply"
    /\ ApplyLoopDone(applied, detections)
    /\ imshow_calls' = imshow_calls + 1
    /\ windows' = "shown"
    /\ \E raw \in RawKeys : key' = MaskKey(raw)
    /\ pc' = "pw_key"
    /\ UNCHANGED << entry, args, exit_status, calls, inp, errors, cap, out, fs,
                    current_effect, intensity, split_view, show_help, last_effect_key >>
    /\ UNCHANGED << detvars, framevars >>
    /\ UNCHANGED toolvars

\* the if/elif chain on key
PW_Key ==
    /\ pc = "pw_key"
    /\ LET s == HandleKey(key, [effect |-> current_effect, intensity |-> intensity,
                                split |-> split_view, help |-> show_help])
       IN  /\ current_effect' = s.effect
           /\ intensity' = s.intensity
           /\ split_view' = s.split
           /\ show_help' = s.help
    /\ fs' = IF key = 115 THEN [fs EXCEPT !.shot = TRUE] ELSE fs
    /\ last_effect_key' = IF key \in 49 .. 52 THEN key ELSE last_effect_key
    /\ pc' = IF key = 113 THEN "pw_release" ELSE "pw_read"
    /\ UNCHANGED << entry, args, exit_status, calls, inp, errors, cap, out, imshow_calls,
                    windows, key >>
    /\ UNCHANGED << detvars, framevars >>
    /\ UNCHANGED toolvars

PW_ReleaseNoDestroy ==
    /\ pc = "pw_release"
    /\ cap' = "released"
    /\ exit_status' = "returned"
    /\ pc' = "done"
    /\ UNCHANGED << entry, args, calls, inp, errors, out, fs, imshow_calls, windows >>
    /\ UNCHANGED << detvars, framevars, webcamvars >>
    /\ UNCHANGED toolvars

\* cap.release(); cv2.destroyAllWindows()
PW_Release ==
    /\ pc = "pw_release"
    /\ cap' = "released"
    /\ windows' = "destroyed"
    /\ exit_status' = "returned"
    /\ pc' = "done"
    /\ UNCHANGED << entry, args, calls, inp, errors, out, fs, imshow_calls >>
    /\ UNCHANGED << detvars, framevars, webcamvars >>
    /\ UNCHANGED toolvars

----------------------------------------------------------------------------

Next ==
    \/ Main \/ Direct \/ AppConstruct \/ Run
    \/ PV_Setup \/ PV_Read \/ PV_Detect \/ PV_Apply \/ PV_Write \/ PV_Progress \/ PV_Release
    \/ DV_Setup \/ DV_Read \/ DV_Detect \/ DV_Apply \/ DV_Write \/ DV_Progress \/ DV_Release
    \/ PI_Setup \/ PI_Detect \/ PI_Apply \/ PI_Save
    \/ PW_Open \/ PW_Read \/ PW_Detect \/ PW_Apply \/ PW_Show \/ PW_Key \/ PW_Release

Spec == Init /\ [][Next]_vars

----------------------------------------------------------------------------
(* effects.py: the six effect functions and apply_effect *)

MaxDim == 4            \* largest side of the frames the effects are run on

BorderThickness == 2   \* thickness of the border apply_blackbox and apply_colorize draw

\* the pixels <<row, column>> of a frame
Pixels(shape) == { << r, c >> : r \in 0 .. shape.h - 1, c \in 0 .. shape.w - 1 }

\* x1, y1 = max(0, x1), max(0, y1); x2, y2 = min(w, x2), min(h, y2)
ClampBox(shape, b) ==
    [x1 |-> Max(0, b.x1), y1 |-> Max(0, b.y1),
     x2 |-> Min(shape.w, b.x2), y2 |-> Min(shape.h, b.y2)]

BoxEmptyNever(b) == FALSE

\* if x2 <= x1 or y2 <= y1: return frame
BoxEmpty(b) == b.x2 <= b.x1 \/ b.y2 <= b.y1

\* one bound of a Python slice over an axis of length n
SliceIndex(i, n) == IF i < 0 THEN Max(0, i + n) ELSE Min(i, n)

SliceRegionInclusive(shape, y1, y2, x1, x2) ==
    { << r, c >> : r \in SliceIndex(y1, shape.h) .. Min(shape.h - 1, SliceIndex(y2, shape.h)),
                   c \in SliceIndex(x1, shape.w) .. Min(shape.w - 1, SliceIndex(x2, shape.w)) }

\* the pixels frame[y1:y2, x1:x2] names
SliceRegion(shape, y1, y2, x1, x2) ==
    { << r, c >> : r \in SliceIndex(y1, shape.h) .. SliceIndex(y2, shape.h) - 1,
                   c \in SliceIndex(x1, shape.w) .. SliceIndex(x2, shape.w) - 1 }

\* cv2.rectangle(..., -1): the filled rectangle holds both corners, clipped to the frame
FilledRect(shape, x1, y1, x2, y2) ==
    { p \in Pixels(shape) : /\ Min(y1, y2) <= p[1] /\ p[1] <= Max(y1, y2)
                            /\ Min(x1, x2) <= p[2] /\ p[2] <= Max(x1, x2) }

\* cv2.rectangle(..., 2): the outline, drawn BorderThickness \div 2 pixels to each
\* side of the rectangle's edges, clipped to the frame
BorderRect(shape, x1, y1, x2, y2) ==
    LET t == BorderThickness \div 2
    IN  { p \in Pixels(shape) :
            /\ y1 - t <= p[1] /\ p[1] <= y2 + t
            /\ x1 - t <= p[2] /\ p[2] <= x2 + t
            /\ ~ ( /\ y1 + t < p[1] /\ p[1] < y2 - t
                   /\ x1 + t < p[2] /\ p[2] < x2 - t ) }

\* what an effect call did: the pixels it wrote, and for pixelation the downsampled
\* grid, for blur the Gaussian kernel size (0 where there is none)
NoChange == [writes |-> { }, grid |-> [w |-> 0, h |-> 0], kernel |-> 0]

\* pixel_size = max(1, min(level, min(face_h, face_w) // 2))
PixelSize(level, fw, fh) == Max(1, Min(level, Min(fh, fw) \div 2))

GridInverted(level, fw, fh) == [w |-> Min(fw, Max(1, level)), h |-> Min(fh, Max(1, level))]

\* (max(1, face_w // pixel_size), max(1, face_h // pixel_size))
Grid(level, fw, fh) ==
    [w |-> Max(1, fw \div PixelSize(level, fw, fh)),
     h |-> Max(1, fh \div PixelSize(level, fw, fh))]

ApplyPixelation(shape, box, level) ==
    LET b == ClampBox(shape, box)
    IN  IF BoxEmpty(b) THEN NoChange
        ELSE [writes |-> SliceRegion(shape, b.y1, b.y2, b.x1, b.x2),
              grid |-> Grid(level, b.x2 - b.x1, b.y2 - b.y1),
              kernel |-> 0]

\* kernel_size = level * 2 + 1
BlurKernel(level) == level * 2 + 1

ApplyBlur(shape, box, level) ==
    LET b == ClampBox(shape, box)
    IN  IF BoxEmpty(b) THEN NoChange
        ELSE [writes |-> SliceRegion(shape, b.y1, b.y2, b.x1, b.x2),
              grid |-> [w |-> 0, h |-> 0],
              kernel |-> BlurKernel(level)]

ApplyBlackbox(shape, box, level) ==
    LET b == ClampBox(shape, box)
    IN  IF BoxEmpty(b) THEN NoChange
        ELSE [writes |-> FilledRect(shape, b.x1, b.y1, b.x2, b.y2)
                         \cup BorderRect(shape, b.x1, b.y1, b.x2, b.y2),
              grid |-> [w |-> 0, h |-> 0], kernel |-> 0]

ApplyEmoji(shape, box, level) ==
    LET b == ClampBox(shape, box)
        face_w == b.x2 - b.x1
        face_h == b.y2 - b.y1
        center_x == (b.x1 + b.x2) \div 2
        center_y == (b.y1 + b.y2) \div 2
        emoji_x1 == Max(0, center_x - face_w \div 2)
        emoji_y1 == Max(0, center_y - face_h \div 2)
        emoji_x2 == Min(shape.w, emoji_x1 + face_w)
        emoji_y2 == Min(shape.h, emoji_y1 + face_h)
    IN  IF BoxEmpty(b) THEN NoChange
        ELSE IF face_w <= 0 \/ face_h <= 0 THEN NoChange
        ELSE [writes |-> SliceRegion(shape, emoji_y1, emoji_y2, emoji_x1, emoji_x2),
              grid |-> [w |-> 0, h |-> 0], kernel |-> 0]

ApplyWitnessProtection(shape, box, level) ==
    LET b == ClampBox(shape, box)
        face_h == b.y2 - b.y1
        bar_height == face_h \div 4
        bar_y1 == b.y1 + face_h \div 3
        bar_y2 == bar_y1 + bar_height
    IN  IF BoxEmpty(b) THEN NoChange
        ELSE [writes |-> FilledRect(shape, b.x1, bar_y1, b.x2, bar_y2),
              grid |-> [w |-> 0, h |-> 0], kernel |-> 0]

ApplyColorize(shape, box, level) ==
    LET b == ClampBox(shape, box)
    IN  IF BoxEmpty(b) THEN NoChange
        ELSE [writes |-> SliceRegion(shape, b.y1, b.y2, b.x1, b.x2)
                         \cup BorderRect(shape, b.x1, b.y1, b.x2, b.y2),
              grid |-> [w |-> 0, h |-> 0], kernel |-> 0]

\* calling one of the six functions
CallEffect(func, shape, box, level) ==
    CASE func = "apply_pixelation"         -> ApplyPixelation(shape, box, level)
      [] func = "apply_blur"               -> ApplyBlur(shape, box, level)
      [] func = "apply_blackbox"           -> ApplyBlackbox(shape, box, level)
      [] func = "apply_emoji"              -> ApplyEmoji(shape, box, level)
      [] func = "apply_witness_protection" -> ApplyWitnessProtection(shape, box, level)
      [] func = "apply_colorize"           -> ApplyColorize(shape, box, level)

EffectNames == { "pixelate", "blur", "blackbox", "emoji", "witness", "colorize" }

\* the registry EFFECTS
EFFECTS ==
    [ n \in EffectNames |->
        CASE n = "pixelate" -> "apply_pixelation"
          [] n = "blur"     -> "apply_blur"
          [] n = "blackbox" -> "apply_blackbox"
          [] n = "emoji"    -> "apply_emoji"
          [] n = "witness"  -> "apply_witness_protection"
          [] n = "colorize" -> "apply_colorize" ]

\* list(EFFECTS.keys())
get_available_effects == DOMAIN EFFECTS

EffectsGetDefaultBlackbox(name) ==
    IF name \in DOMAIN EFFECTS /\ name # "witness" THEN EFFECTS[name] ELSE "apply_blackbox"

\* EFFECTS.get(effect_name, apply_pixelation)
EffectsGet(name) ==
    IF name \in DOMAIN EFFECTS THEN EFFECTS[name] ELSE "apply_pixelation"

\* apply_effect: the function it calls, what it hands it, and what that call does
apply_effect(shape, box, name, level) ==
    [func |-> EffectsGet(name), box |-> box, level |-> level,
     res |-> CallEffect(EffectsGet(name), shape, box, level)]

----------------------------------------------------------------------------
(* old_files/utils.py: pixelate_face and blur_face *)

\* x1 = max(0, int(x1)); y1 = max(0, int(y1)); x2 = min(w - 1, int(x2)); y2 = min(h - 1, int(y2))
\* (the coordinates are integers here, which int() leaves as they are)
ClampBoxOld(shape, b) ==
    [x1 |-> Max(0, b.x1), y1 |-> Max(0, b.y1),
     x2 |-> Min(shape.w - 1, b.x2), y2 |-> Min(shape.h - 1, b.y2)]

NoChangeOld == [raised |-> FALSE, writes |-> { }, grid |-> [w |-> 0, h |-> 0], kernel |-> 0]

RaisedOld == [raised |-> TRUE, writes |-> { }, grid |-> [w |-> 0, h |-> 0], kernel |-> 0]

\* cv2.resize(face_region, (pixelation, pixelation)): the downsampled grid
PixelateGrid(pixelation) == [w |-> pixelation, h |-> pixelation]

\* pixelate_face: cv2.resize raises on a size that is not positive
PixelateFace(shape, box, pixelation) ==
    LET b == ClampBoxOld(shape, box)
        face_region == SliceRegion(shape, b.y1, b.y2, b.x1, b.x2)
    IN  IF face_region = { } THEN NoChangeOld
        ELSE IF pixelation <= 0 THEN RaisedOld
        ELSE IF b.x2 - b.x1 <= 0 \/ b.y2 - b.y1 <= 0 THEN RaisedOld
        ELSE [raised |-> FALSE, writes |-> face_region,
              grid |-> PixelateGrid(pixelation), kernel |-> 0]

BlurFaceKernelAsGiven(blur_strength) == blur_strength

\* if blur_strength % 2 == 0: blur_strength += 1
BlurFaceKernel(blur_strength) ==
    IF blur_strength % 2 = 0 THEN blur_strength + 1 ELSE blur_strength

\* blur_face
BlurFace(shape, box, blur_strength) ==
    LET b == ClampBoxOld(shape, box)
        face_region == SliceRegion(shape, b.y1, b.y2, b.x1, b.x2)
    IN  IF face_region = { } THEN NoChangeOld
        ELSE [raised |-> FALSE, writes |-> face_region,
              grid |-> [w |-> 0, h |-> 0],
              kernel |-> BlurFaceKernel(blur_strength)]

----------------------------------------------------------------------------
(* The effect functions, the old helpers and the scripts, each called on its own *)

MaxFace == 12          \* largest side of the face regions pixelated at two levels
MaxLevel == 7          \* the levels 0 .. MaxLevel are tried besides the named ones
MaxStrength == 51      \* largest blur_strength handed to blur_face directly

DefaultLevel == 12     \* apply_effect(..., level=12)

FxShapes == { [w |-> MaxDim, h |-> MaxDim - 1], [w |-> 2, h |-> MaxDim] }
FxCoords == -2 .. MaxDim + 1
FxBoxes == [x1 : FxCoords, y1 : FxCoords, x2 : FxCoords, y2 : FxCoords]
FxFaces == { b \in FxBoxes : \A f \in DOMAIN b : b[f] \in { -1, 1, MaxDim + 1 } }
FullBox(shape) == [x1 |-> 0, y1 |-> 0, x2 |-> shape.w, y2 |-> shape.h]
Overhang(shape) == [x1 |-> -1, y1 |-> -1, x2 |-> shape.w + 1, y2 |-> shape.h + 1]
EffectFuncs == { EFFECTS[n] : n \in DOMAIN EFFECTS }
\* the whole frame is tried at every level of the documented range, the other boxes
\* at the default level
FxLevels(shape, box) == IF box = FullBox(shape) THEN 5 .. 50 ELSE { DefaultLevel }
FxNames == get_available_effects \cup { "mosaic", "" }
PixLevels == (0 .. MaxLevel) \cup { DefaultLevel, 50 }
FaceShapes == [w : 1 .. MaxFace, h : 1 .. MaxFace]

InitTools ==
    /\ pc = "t_idle"
    /\ env = CHOOSE e \in Envs : TRUE
    /\ model = "None"
    /\ load = NoLoad
    /\ info = [called |-> FALSE, loaded |-> FALSE]
    /\ det_in = NoDetIn
    /\ det_out = NoDetOut
    /\ AppIdle

\* one of the six effect functions is called on a frame
FX_CallEffect ==
    /\ pc = "t_idle"
    /\ \E func \in EffectFuncs, shape \in FxShapes, box \in FxBoxes :
         \E level \in FxLevels(shape, box) :
            fx' = [op |-> "effect", func |-> func, shape |-> shape, box |-> box,
                   level |-> level, res |-> CallEffect(func, shape, box, level)]
    /\ pc' = "t_done"
    /\ UNCHANGED << px, detvars, appvars >>

\* apply_effect is called with an effect name
FX_ApplyEffect ==
    /\ pc = "t_idle"
    /\ \E name \in FxNames, shape \in FxShapes, box \in FxFaces,
          level \in { 5, DefaultLevel, 50 } :
            fx' = [op |-> "apply_effect", name |-> name, shape |-> shape, box |-> box,
                   level |-> level, call |-> apply_effect(shape, box, name, level)]
    /\ pc' = "t_done"
    /\ UNCHANGED << px, detvars, appvars >>

\* apply_pixelation is called on a face region ...
FX_Pixelate ==
    /\ pc = "t_idle"
    /\ \E shape \in FaceShapes, level \in PixLevels :
            fx' = [op |-> "pixelation", shape |-> shape, level |-> level,
                   res |-> ApplyPixelation(shape, Overhang(shape), level),
                   first |-> [level |-> level,
                              res |-> ApplyPixelation(shape, Overhang(shape), level)]]
    /\ pc' = "t_pixelated"
    /\ UNCHANGED << px, detvars, appvars >>

\* ... and once more on the same region at another level
FX_PixelateAgain ==
    /\ pc = "t_pixelated"
    /\ \E level \in PixLevels :
            fx' = [fx EXCEPT !.level = level,
                             !.res = ApplyPixelation(fx.shape, Overhang(fx.shape), level)]
    /\ pc' = "t_done"
    /\ UNCHANGED << px, detvars, appvars >>

\* utils.pixelate_face is called on an image
U_PixelateFace ==
    /\ pc = "t_idle"
    /\ \E shape \in FxShapes, box \in FxBoxes :
            fx' = [op |-> "pixelate_face", shape |-> shape, box |-> box,
                   res |-> PixelateFace(shape, box, 15)]
    /\ pc' = "t_done"
    /\ UNCHANGED << px, detvars, appvars >>

\* utils.blur_face is called on an image
U_BlurFace ==
    /\ pc = "t_idle"
    /\ \E shape \in FxShapes, box \in FxFaces, blur_strength \in 1 .. MaxStrength :
            fx' = [op |-> "blur_face", shape |-> shape, box |-> box,
                   blur_strength |-> blur_strength,
                   res |-> BlurFace(shape, box, blur_strength)]
    /\ pc' = "t_done"
    /\ UNCHANGED << px, detvars, appvars >>

(* old_files/webcam_face_pixelation.py: main *)

MaxOldFrames == 9      \* frames the old webcam loop reads at most

OldShape == [w |-> MaxDim, h |-> MaxDim - 1]
\* detector.detect(frame, conf_threshold=0.5): no face or one face
OldDetections == { << >>, << FullBox(OldShape) >>, << [x1 |-> 1, y1 |-> 0, x2 |-> 3, y2 |-> 2] >> }
\* q + = - _ b s d, and no key
OldKeys == { 113, 43, 61, 45, 95, 98, 115, 100, 255 }

\* detector chosen, open_camera(0); pixelation_level = 15; blur_mode = False
OW_Start ==
    /\ pc = "t_idle"
    /\ \E opened \in BOOLEAN :
         IF opened
         THEN /\ px' = [NoPx EXCEPT !.level = 15, !.prev_level = 15]
              /\ pc' = "o_read"
         ELSE /\ px' = NoPx
              /\ pc' = "t_done"
    /\ UNCHANGED << fx, detvars, appvars >>

\* ret, frame = cap.read(); the effect on each detected face
OW_Frame ==
    /\ pc = "o_read"
    /\ \E ret \in BOOLEAN, faces \in OldDetections :
         /\ ret => px.frames < MaxOldFrames
         /\ IF ~ ret
            THEN /\ px' = px
                 /\ pc' = "o_release"
            ELSE LET res == IF faces = << >> THEN NoChangeOld
                            ELSE IF px.blur_mode
                                 THEN BlurFace(OldShape, faces[1], px.level * 3)
                                 ELSE PixelateFace(OldShape, faces[1], px.level)
                 IN  /\ px' = [px EXCEPT !.frames = @ + 1, !.faces = faces, !.res = res,
                                         !.prev_res = px.res]
                     /\ pc' = IF res.raised THEN "t_done" ELSE "o_key"
    /\ UNCHANGED << fx, detvars, appvars >>

\* pixelation_level after the key: min(50, level + 5) on + or =, max(5, level - 5) on - or _
OldHandleKey(level, k) ==
    IF k \in { 43, 61 } THEN Min(50, level + 5)
    ELSE IF k \in { 45, 95 } THEN Max(5, level - 5)
    ELSE level

\* key = cv2.waitKey(1) & 0xFF and the chain of key tests
OW_Key ==
    /\ pc = "o_key"
    /\ \E k \in OldKeys :
         /\ px' = [px EXCEPT !.key = k, !.prev_level = px.level,
                             !.level = OldHandleKey(px.level, k),
                             !.blur_mode = IF k = 98 THEN ~ @ ELSE @]
         /\ pc' = IF k = 113 THEN "o_release" ELSE "o_read"
    /\ UNCHANGED << fx, detvars, appvars >>

\* cap.release(); cv2.destroyAllWindows()
OW_Release ==
    /\ pc = "o_release"
    /\ px' = [px EXCEPT !.released = TRUE]
    /\ pc' = "t_done"
    /\ UNCHANGED << fx, detvars, appvars >>

(* convert_to_gif.py: video_to_gif *)

MaxGifFrames == 8      \* frames of the longest input video

GifInputs ==
    [total_frames : 0 .. MaxGifFrames, original_fps : { 5, 10, 30 },
     fps : { 10, 15 }, max_frames : { 1, 3, 100 }]

\* frame_skip = int(original_fps / fps), for a whole number of frames per second
FrameSkip(original_fps, fps) == original_fps \div fps

\* cap = cv2.VideoCapture(input_path) up to the start of the loop
G_Open ==
    /\ pc = "t_idle"
    /\ \E opened \in BOOLEAN, i \in GifInputs :
         IF opened
         THEN /\ fx' = [op |-> "video_to_gif", opened |-> TRUE, inp |-> i,
                        target |-> Min(i.total_frames, i.max_frames),
                        frame_skip |-> FrameSkip(i.original_fps, i.fps),
                        frame_count |-> 0, saved_count |-> 0,
                        raised |-> FALSE, released |-> FALSE, gif |-> << >>]
              /\ pc' = "g_read"
         ELSE /\ fx' = [op |-> "video_to_gif", opened |-> FALSE, inp |-> i,
                        target |-> 0, frame_skip |-> 0, frame_count |-> 0,
                        saved_count |-> 0, raised |-> FALSE, released |-> FALSE,
                        gif |-> << >>]
              /\ pc' = "t_done"
    /\ UNCHANGED << px, detvars, appvars >>

\* one turn of the loop: the video yields exactly total_frames frames
G_Read ==
    /\ pc = "g_read"
    /\ LET ret == fx.frame_count < fx.inp.total_frames
       IN  IF ~ ret \/ fx.saved_count >= fx.inp.max_frames
           THEN /\ fx' = fx
                /\ pc' = "g_release"
           ELSE IF fx.frame_skip = 0
           THEN /\ fx' = [fx EXCEPT !.raised = TRUE]
                /\ pc' = "t_done"
           ELSE /\ fx' = [fx EXCEPT
                            !.saved_count = IF fx.frame_count % fx.frame_skip = 0
                                            THEN @ + 1 ELSE @,
                            !.frame_count = @ + 1]
                /\ pc' = "g_read"
    /\ UNCHANGED << px, detvars, appvars >>

\* cap.release(); if not frames: return; frames[0].save(...): gif holds the number of
\* frames of each file written
G_Save ==
    /\ pc = "g_release"
    /\ fx' = [fx EXCEPT !.released = TRUE,
                        !.gif = IF fx.saved_count = 0 THEN << >>
                                ELSE << fx.saved_count >>]
    /\ pc' = "t_done"
    /\ UNCHANGED << px, detvars, appvars >>

NextTools ==
    \/ FX_CallEffect \/ FX_ApplyEffect \/ FX_Pixelate \/ FX_PixelateAgain
    \/ U_PixelateFace \/ U_BlurFace
    \/ OW_Start \/ OW_Frame \/ OW_Key \/ OW_Release
    \/ G_Open \/ G_Read \/ G_Save

SpecTools == InitTools /\ [][NextTools]_vars

----------------------------------------------------------------------------
(* Claims about the detector, checked under SpecDetector *)

DetectCalled == det_in # NoDetIn

RECURSIVE CountBoxes(_)
CountBoxes(results) ==
    IF results = << >> THEN 0 ELSE Len(Head(results)) + CountBoxes(Tail(results))

BoxHasNaN(b) == NaN \in { b.x1, b.y1, b.x2, b.y2 }

ConversionRaises(output) ==
    \E i \in DOMAIN output.results :
        \E j \in DOMAIN output.results[i] : BoxHasNaN(output.results[i][j])

\* C4: detect never raises; it returns the empty list when the model is not loaded
\* and when inference or a box conversion raises, and otherwise one 5-tuple per
\* box the model reported.
C4_DetectNeverRaises ==
    DetectCalled =>
        /\ ~det_out.raised
        /\ pc # "d_raised"
        /\ IF model = "None" \/ det_in.output.raises \/ ConversionRaises(det_in.output)
           THEN det_out.value = << >>
           ELSE /\ Len(det_out.value) = CountBoxes(det_in.output.results)
                /\ \A i \in DOMAIN det_out.value : Len(det_out.value[i]) = 5

\* a loaded model reports three boxes, the second of which cannot be converted
C4_Witness ==
    /\ DetectCalled
    /\ model = "YOLO"
    /\ det_in.output = [raises |-> FALSE,
                        results |-> << << BoxInside, BoxNaN, BoxBeyond >> >>]
    /\ det_out = [raised |-> FALSE, value |-> << >>]

\* C5: every detection returned for a frame of width w and height h has its
\* coordinates inside the frame: 0 <= x1, x2 <= w and 0 <= y1, y2 <= h.
C5_DetectionsInsideFrame ==
    DetectCalled =>
        \A i \in DOMAIN det_out.value :
            LET d == det_out.value[i]
            IN  /\ d[1] \in 0 .. det_in.shape.w
                /\ d[3] \in 0 .. det_in.shape.w
                /\ d[2] \in 0 .. det_in.shape.h
                /\ d[4] \in 0 .. det_in.shape.h

\* the model reports a box left of the frame and far beyond its right and bottom edges
C5_Witness ==
    /\ DetectCalled
    /\ det_in.shape = [w |-> 4, h |-> 3]
    /\ det_in.output.results =
           << << [x1 |-> Num(-(2 * MaxCoord) - 1), y1 |-> Num(-1),
                  x2 |-> Num(2 * MaxCoord + 1), y2 |-> Num(2 * MaxCoord + 1),
                  conf |-> 90] >> >>
    /\ det_out.value = << << 0, 0, 4, 3, 90 >> >>

Constructed == pc # "d_new"

LoadingSucceeds(e) == e.import = "ok" /\ e.load_ok

----------------------------------------------------------------------------
(* Claims about the application, checked under Spec *)

Method == IF calls = << >> THEN "none" ELSE calls[1]

\* the function each --effect name stands for; an unregistered name falls back
\* to pixelation
ExpectedFunc(name) ==
    CASE name = "pixelate" -> "apply_pixelation"
      [] name = "blur"     -> "apply_blur"
      [] name = "blackbox" -> "apply_blackbox"
      [] name = "emoji"    -> "apply_emoji"
      [] OTHER             -> "apply_pixelation"

\* C1: in process_video and create_demo_video, once the capture has been opened,
\* every way the method ends leaves both the capture and the writer released
\* (stated for runs started from the command line).
C1_EveryExitReleasesBoth ==
    ( /\ entry = "main"
      /\ pc = "done"
      /\ Method \in { "process_video", "create_demo_video" }
      /\ cap \in { "opened", "released" } )
    => (cap = "released" /\ out = "released")

\* C2: the frame written by process_video, process_image and create_demo_video
\* carries exactly one application of the selected effect function per detection
\* of that frame, in order, all made before the write.
C2_WrittenFrameFullyProtected ==
    written.n > 0 =>
        /\ Method \in { "process_video", "process_image", "create_demo_video" }
        /\ Len(written.frame) = Len(written.dets)
        /\ \A i \in DOMAIN written.dets :
              written.frame[i] =
                  [effect |-> ExpectedFunc(args.effect),
                   box |-> << written.dets[i][1], written.dets[i][2],
                              written.dets[i][3], written.dets[i][4] >>,
                   level |-> args.intensity]

\* the demo has written a frame with two detections, both blurred
C2_Witness ==
    /\ Method = "create_demo_video"
    /\ args.effect = "blur"
    /\ pc = "dv_progress"
    /\ Len(written.dets) = 2
    /\ Len(written.frame) = 2
    /\ written.frame[2].effect = "apply_blur"

InWebcamLoop == pc \in { "pw_read", "pw_detect", "pw_apply", "pw_key", "pw_release" }

\* C3: in a run started through main() the intensity handed to an effect function
\* is always within 5..50, and so is the webcam loop's intensity after any
\* sequence of + = - _ key presses.
C3_IntensityInRange ==
    entry = "main" =>
        /\ \A i \in DOMAIN applied : applied[i].level \in 5 .. 50
        /\ \A i \in DOMAIN written.frame : written.frame[i].level \in 5 .. 50
        /\ InWebcamLoop => intensity \in 5 .. 50

\* --intensity 49, then + pressed: the next frame's faces get level 50, not 51
C3_Witness ==
    /\ entry = "main"
    /\ Method = "process_webcam"
    /\ args.intensity = 49
    /\ key = 43
    /\ pc = "pw_apply"
    /\ Len(applied) = 2
    /\ applied[2].level = 50

\* C7: when the input path does not exist, the capture cannot be opened or the
\* image cannot be read, the method prints an error and returns, and no output
\* directory, video writer or output file has been created.
C7_EarlyReturnCreatesNothing ==
    inp \in { "missing", "unusable" } =>
        /\ pc = "done"
        /\ exit_status = "returned"
        /\ errors = << IF inp = "missing" THEN "input_not_found"
                       ELSE IF Method = "process_image" THEN "could_not_read"
                       ELSE "could_not_open" >>
        /\ fs.dir = FALSE /\ fs.file = FALSE
        /\ out = "none"
        /\ written.n = 0

\* process_video met a file that exists but cannot be opened as a video
C7_Witness ==
    /\ Method = "process_video"
    /\ inp = "unusable"
    /\ cap = "failed"
    /\ errors = << "could_not_open" >>
    /\ pc = "done"

RunCalled == pc \notin { "start", "construct", "run" } /\ exit_status # "exit2"
             /\ ~load.raised

\* C8: run invokes exactly one processing method: create_demo_video whenever demo
\* is set, otherwise the one --source names; for any other source it invokes none
\* and exits with status 1.
C8_RunInvokesExactlyOne ==
    /\ Len(calls) <= 1
    /\ RunCalled =>
          IF args.demo THEN calls = << "create_demo_video" >>
          ELSE IF args.source = "webcam" THEN calls = << "process_webcam" >>
          ELSE IF args.source = "video" THEN calls = << "process_video" >>
          ELSE IF args.source = "image" THEN calls = << "process_image" >>
          ELSE calls = << >> /\ exit_status = "exit1" /\ pc = "done"

\* --demo together with --source image: only create_demo_video runs
C8_Witness ==
    /\ RunCalled
    /\ args.demo /\ args.source = "image"
    /\ calls = << "create_demo_video" >>
    /\ written.n > 0

\* C9: with --no-display no window is ever shown, in any source mode.
C9_NoDisplayNeverShows ==
    args.no_display => imshow_calls = 0

EffectKeys == 49 .. 52
IntensityKeys == { 43, 61, 45, 95 }

EffectOfKey(k) ==
    CASE k = 49 -> "pixelate" [] k = 50 -> "blur" [] k = 51 -> "blackbox"
      [] k = 52 -> "emoji"

\* what the key read by waitKey may change when the loop handles it
KeyChangesOnlyItsSetting ==
    /\ key \in EffectKeys =>
          /\ current_effect' = EffectOfKey(key)
          /\ UNCHANGED << intensity, split_view, show_help >>
    /\ key \in IntensityKeys => UNCHANGED << current_effect, split_view, show_help >>
    /\ key = 32 =>
          /\ split_view' = ~split_view
          /\ UNCHANGED << current_effect, intensity, show_help >>
    /\ key = 104 =>
          /\ show_help' = ~show_help
          /\ UNCHANGED << current_effect, intensity, split_view >>
    /\ key \notin EffectKeys \cup IntensityKeys \cup { 32, 104 } =>
          UNCHANGED << current_effect, intensity, split_view, show_help >>

\* the effect the latest of the keys 1-4 selected, or --effect if none was pressed
SelectedEffect == IF last_effect_key = 0 THEN args.effect ELSE EffectOfKey(last_effect_key)

\* while a frame is being protected, and until the key after it is handled
AppliedIsSelected ==
    pc \in { "pw_apply", "pw_key" } =>
        \A i \in DOMAIN applied : applied[i].effect = ExpectedFunc(SelectedEffect)

\* C10: in process_webcam each key changes only the setting bound to it (1-4 the
\* effect, + = - _ the intensity, SPACE split_view, h show_help, anything else
\* nothing), no other step of the loop changes a setting, and the effect applied to
\* a frame's detections is the one the latest of the keys 1-4 selected, or --effect.
C10_KeysChangeOnlyTheirSetting ==
    [][ /\ pc = "pw_key" => KeyChangesOnlyItsSetting
        /\ (InWebcamLoop /\ pc # "pw_key") =>
              UNCHANGED << current_effect, intensity, split_view, show_help >>
        /\ AppliedIsSelected' ]_vars

\* started with --effect emoji; 3 pressed after the first frame, SPACE after the
\* second: the third frame's faces get the black box
C10_Witness ==
    /\ Method = "process_webcam"
    /\ args.effect = "emoji"
    /\ frame_num = 3
    /\ last_effect_key = 51
    /\ key = 32
    /\ split_view
    /\ pc = "pw_apply"
    /\ Len(applied) = 2
    /\ applied[2].effect = "apply_blackbox"

WebcamLoopBody == { "pw_read", "pw_detect", "pw_apply", "pw_key" }

\* C11: the frame loop of process_webcam ends only when q is pressed or a frame
\* read fails, and on both exits the capture is released and all windows are
\* destroyed before the method returns.
C11_WebcamLoopExitsRelease ==
    [][ /\ (pc \in WebcamLoopBody /\ pc' \notin WebcamLoopBody) =>
              /\ pc' = "pw_release"
              /\ \/ pc = "pw_key" /\ key = 113
                 \/ pc = "pw_read" /\ errors' = Append(errors, "grab_failed")
        /\ pc = "pw_release" =>
              /\ pc' = "done"
              /\ exit_status' = "returned"
              /\ cap' = "released"
              /\ windows' = "destroyed" ]_vars

\* two frames were shown, then q was pressed
C11_Witness ==
    /\ Method = "process_webcam"
    /\ frame_num = 2
    /\ key = 113
    /\ pc = "done"
    /\ exit_status = "returned"
    /\ cap = "released"
    /\ windows = "destroyed"

----------------------------------------------------------------------------
(* Claims about the effect functions, the old helpers and the scripts, checked
   under SpecTools *)

\* the function the registry is to hold under each of the six names
RegisteredUnder(name) ==
    CASE name = "pixelate" -> "apply_pixelation"
      [] name = "blur"     -> "apply_blur"
      [] name = "blackbox" -> "apply_blackbox"
      [] name = "emoji"    -> "apply_emoji"
      [] name = "witness"  -> "apply_witness_protection"
      [] name = "colorize" -> "apply_colorize"

\* C12: apply_effect calls exactly the function registered under effect_name for
\* each of the six names get_available_effects returns, hands it the box and the
\* level it was given, and calls apply_pixelation for any other name.
C12_ApplyEffectDispatches ==
    /\ get_available_effects = { "pixelate", "blur", "blackbox", "emoji", "witness", "colorize" }
    /\ fx.op = "apply_effect" =>
         LET expected == IF fx.name \in get_available_effects
                         THEN RegisteredUnder(fx.name) ELSE "apply_pixelation"
         IN  /\ fx.call.func = expected
             /\ fx.call.box = fx.box
             /\ fx.call.level = fx.level
             /\ fx.call.res = CallEffect(expected, fx.shape, fx.box, fx.level)

C12_Witness ==
    /\ pc = "t_done" /\ fx.op = "apply_effect" /\ fx.name = "witness"
    /\ fx.call.func = "apply_witness_protection"
    /\ fx.call.res.writes # { }

\* C13: in apply_pixelation a higher level means more pixelation: on the same
\* non-empty clamped face region, for levels a <= b, the downsampled grid used
\* for b is no wider and no taller than the grid used for a.
C13_HigherLevelCoarserGrid ==
    (fx.op = "pixelation" /\ pc = "t_done" /\ fx.first.level <= fx.level) =>
        /\ fx.res.writes = fx.first.res.writes
        /\ fx.res.writes # { }
        /\ fx.res.grid.w <= fx.first.res.grid.w
        /\ fx.res.grid.h <= fx.first.res.grid.h

C13_Witness ==
    /\ fx.op = "pixelation" /\ pc = "t_done"
    /\ fx.shape = [w |-> MaxFace, h |-> MaxFace - 1]
    /\ fx.first.level = 2 /\ fx.level = 5
    /\ fx.res.grid.w < fx.first.res.grid.w
    /\ fx.res.grid.h < fx.first.res.grid.h

Odd(n) == n % 2 = 1

\* C14: the kernel size handed to cv2.GaussianBlur is always an odd positive
\* integer: apply_blur hands it 2*level+1 for every level in 5..50, and
\* utils.blur_face hands it blur_strength, plus one when that is even, also for
\* blur_strength = 3*pixelation_level at every level the old webcam loop reaches.
C14_BlurKernelOddPositive ==
    /\ (fx.op = "effect" /\ fx.func = "apply_blur" /\ fx.res.writes # { }) =>
          /\ fx.res.kernel = 2 * fx.level + 1
          /\ Odd(fx.res.kernel) /\ fx.res.kernel > 0
    /\ (fx.op = "blur_face" /\ fx.res.writes # { }) =>
          /\ fx.res.kernel = fx.blur_strength + (IF Odd(fx.blur_strength) THEN 0 ELSE 1)
          /\ Odd(fx.res.kernel) /\ fx.res.kernel > 0
    /\ (pc = "o_key" /\ px.blur_mode /\ px.faces # << >>) =>
          /\ px.level \in 5 .. 50
          /\ px.res.kernel \in { 3 * px.level, 3 * px.level + 1 }
          /\ Odd(px.res.kernel) /\ px.res.kernel > 0

C14_Witness ==
    /\ pc = "o_key" /\ px.blur_mode /\ px.faces # << >>
    /\ px.level = 50 /\ px.res.kernel = 151

\* C15: in the old webcam loop, pressing + (or =) increases pixelation, so the
\* face is drawn from fewer, coarser blocks than before, and pressing - (or _)
\* decreases it, at every level of 5..50 that is not already at the bound.
C15_PlusIncreasesPixelation ==
    (pc = "o_key" /\ px.res.grid.w > 0 /\ px.prev_res.grid.w > 0) =>
        /\ (px.key \in { 43, 61 } /\ px.prev_level \in 5 .. 45) =>
              /\ px.res.grid.w < px.prev_res.grid.w
              /\ px.res.grid.h < px.prev_res.grid.h
        /\ (px.key \in { 45, 95 } /\ px.prev_level \in 10 .. 50) =>
              /\ px.res.grid.w > px.prev_res.grid.w
              /\ px.res.grid.h > px.prev_res.grid.h

\* the number of frames in the GIF video_to_gif wrote (0 when it wrote none)
GifFrames == IF fx.gif = << >> THEN 0 ELSE fx.gif[1]

\* C16: for every opened video and every fps and max_frames, video_to_gif ends
\* without error having put min(total_frames, max_frames) frames into the GIF,
\* the number its "Target" message announced.
C16_GifHoldsTargetFrames ==
    (fx.op = "video_to_gif" /\ fx.opened /\ pc = "t_done") =>
        /\ ~ fx.raised
        /\ fx.target = Min(fx.inp.total_frames, fx.inp.max_frames)
        /\ GifFrames = fx.target

\* the box of an effect call is empty after clamping to the frame
ClampedEmpty(shape, box) ==
    \/ Min(shape.w, box.x2) <= Max(0, box.x1)
    \/ Min(shape.h, box.y2) <= Max(0, box.y1)

\* C17: each of the six effect functions returns the frame with no pixel changed
\* whenever the box, clamped to the frame (x1, y1 raised to 0, x2 lowered to w,
\* y2 lowered to h), is empty, for any integer coordinates, negative ones and
\* ones beyond the frame included.
C17_EmptyBoxChangesNothing ==
    /\ (fx.op = "effect" /\ ClampedEmpty(fx.shape, fx.box)) => fx.res.writes = { }
    /\ (fx.op = "apply_effect" /\ ClampedEmpty(fx.shape, fx.box)) =>
          fx.call.res.writes = { }

C17_Witness ==
    /\ pc = "t_done" /\ fx.op = "effect" /\ fx.func = "apply_blackbox"
    /\ fx.box = [x1 |-> -2, y1 |-> -1, x2 |-> 0, y2 |-> MaxDim + 1]
    /\ ClampedEmpty(fx.shape, fx.box)
    /\ fx.res.writes = { }

\* the pixels of the frame in rows r1..r2 and columns c1..c2
Block(shape, r1, r2, c1, c2) ==
    { p \in Pixels(shape) : r1 <= p[1] /\ p[1] <= r2 /\ c1 <= p[2] /\ p[2] <= c2 }

\* the clamped bounding box of an effect call: rows y1..y2-1, columns x1..x2-1
InsideBox(shape, box, grow) ==
    Block(shape, Max(0, box.y1) - grow.top, Min(shape.h, box.y2) - 1 + grow.bottom,
                 Max(0, box.x1) - grow.left, Min(shape.w, box.x2) - 1 + grow.right)

NoGrow == [top |-> 0, bottom |-> 0, left |-> 0, right |-> 0]

\* C18 as stated: each effect function changes only pixels inside the clamped
\* bounding box (rows y1..y2-1, columns x1..x2-1) and leaves every pixel of the
\* frame outside that box unchanged.
C18_OnlyInsideBox ==
    fx.op = "effect" => fx.res.writes \subseteq InsideBox(fx.shape, fx.box, NoGrow)

\* how far beyond the clamped box each function may write
Reach(func) ==
    CASE func \in { "apply_pixelation", "apply_blur", "apply_emoji" } -> NoGrow
      [] func = "apply_witness_protection" -> [NoGrow EXCEPT !.right = 1]
      [] func \in { "apply_blackbox", "apply_colorize" } ->
            [top |-> 1, bottom |-> 2, left |-> 1, right |-> 2]

\* C18, amended: apply_pixelation, apply_blur and apply_emoji change only pixels
\* inside the clamped box (rows y1..y2-1, columns x1..x2-1);
\* apply_witness_protection changes only pixels in rows y1..y2-1 and columns
\* x1..x2; apply_blackbox and apply_colorize change only pixels in rows
\* y1-1..y2+1 and columns x1-1..x2+1. Every other pixel of the frame is left
\* unchanged.
C18_OnlyNearBox ==
    fx.op = "effect" => fx.res.writes \subseteq InsideBox(fx.shape, fx.box, Reach(fx.func))

C18_Witness ==
    /\ pc = "t_done" /\ fx.op = "effect" /\ fx.func = "apply_blackbox"
    /\ fx.shape = [w |-> MaxDim, h |-> MaxDim - 1]
    /\ fx.box = [x1 |-> 1, y1 |-> 1, x2 |-> 2, y2 |-> 2]
    /\ << 2, 2 >> \in fx.res.writes
    /\ << 2, 2 >> \notin InsideBox(fx.shape, fx.box, NoGrow)

\* C19: for every integer box and image, utils.pixelate_face pixelates exactly
\* the part of the box that lies in the image (columns max(0,x1)..min(w,x2)-1,
\* rows max(0,y1)..min(h,y2)-1), changes no other pixel, and returns the image
\* unchanged without error when that part is empty.
C19_PixelateFaceExactBox ==
    fx.op = "pixelate_face" =>
        /\ ~ fx.res.raised
        /\ fx.res.writes = InsideBox(fx.shape, fx.box, NoGrow)

====
